---- MODULE Spec2Model ----
(***************************************************************************)
(* athena_schema: a Go struct -> Athena table definition generator.        *)
(* Model of cmd/athena_schema/main.go: the name resolver (CamelToSnake),   *)
(* the column generator (genCoulmns / genSqlType), the struct lookup       *)
(* (searchStruct) and the main loop (generate, format, WriteFile).         *)
(*                                                                         *)
(* Go strings whose bytes the code inspects (identifiers, tag values,      *)
(* flag values) are sequences of one-character strings; strings the code   *)
(* only concatenates and compares (column names and types) are TLA+        *)
(* strings, built from the former by Str.                                  *)
(***************************************************************************)
EXTENDS Integers, Sequences, FiniteSets, TLC

VARIABLES
  pc,          \* position of the running program / call
  arg,         \* argument of the function under call (function-level specifications)
  ret,         \* its result
  flags,       \* the command line: -type, -table, -folder values
  pkg,         \* g.pkg: the type-checked package (a key of Packages)
  typeNames,   \* main's typeNames
  tableNames,  \* main's tableNames
  folderNames, \* main's folderNames
  idx,         \* index of main's loop over typeNames
  tables,      \* g.tables
  src,         \* the rendered template (main's src)
  file,        \* the output file's content
  exit         \* how the process ended: exit status and fatal message

vars == <<pc, arg, ret, flags, pkg, typeNames, tableNames, folderNames, idx, tables, src, file, exit>>

\* a value not yet set; the output before it is produced; the process still running
None     == "none"
NoOutput == [none |-> TRUE]
Running  == [code |-> -1, msg |-> "", at |-> "running"]

-----------------------------------------------------------------------------
(* Bounds of the model.                                                    *)

\* longest lowercase tail of a generated capitalized word
MaxTail == 2
\* deepest nesting of genSqlType/genCoulmns calls that is followed
MaxDepth == 14
\* most fields of a generated struct
MaxFields == 2
\* most requested type names on the command line
MaxTypes == 2

-----------------------------------------------------------------------------
(* Strings.                                                                *)

UpperChars == <<"A","B","C","D","E","F","G","H","I","J","K","L","M","N","O","P","Q","R","S","T","U","V","W","X","Y","Z">>
LowerChars == <<"a","b","c","d","e","f","g","h","i","j","k","l","m","n","o","p","q","r","s","t","u","v","w","x","y","z">>

Range(f) == { f[k] : k \in DOMAIN f }

\* unicode.IsUpper on an ASCII rune
IsUpper(c) == c \in Range(UpperChars)

\* strings.ToLower on an ASCII string
ToLowerChar(c) ==
  IF IsUpper(c) THEN LowerChars[CHOOSE k \in DOMAIN UpperChars : UpperChars[k] = c] ELSE c

ToLower(s) == [k \in DOMAIN s |-> ToLowerChar(s[k])]

\* the Go string made of the characters of s
RECURSIVE Str(_)
Str(s) == IF s = <<>> THEN "" ELSE Head(s) \o Str(Tail(s))

\* s[from:to] with Go's 0-based, half-open indices
Slice(s, from, to) == SubSeq(s, from + 1, to)

\* strings.Split(s, sep) for a one-character separator: always at least one segment
RECURSIVE SplitFrom(_, _, _)
SplitFrom(s, sep, cur) ==
  IF s = <<>> THEN <<cur>>
  ELSE IF Head(s) = sep THEN <<cur>> \o SplitFrom(Tail(s), sep, <<>>)
  ELSE SplitFrom(Tail(s), sep, Append(cur, Head(s)))

Split(s, sep) == SplitFrom(s, sep, <<>>)

\* strings.Join(list, sep) on Go strings
RECURSIVE JoinStr(_, _)
JoinStr(list, sep) ==
  IF list = <<>> THEN ""
  ELSE IF Len(list) = 1 THEN list[1]
  ELSE list[1] \o sep \o JoinStr(Tail(list), sep)

-----------------------------------------------------------------------------
(* CamelToSnake and startsWithInitialism.                                  *)

commonInitialisms ==
  { <<"A","C","L">>, <<"A","P","I">>, <<"A","S","C","I","I">>,
    <<"C","P","U">>, <<"C","S","S">>, <<"D","N","S">>, <<"E","O","F">>,
    <<"E","T","A">>, <<"G","P","U">>, <<"G","U","I","D">>,
    <<"H","T","M","L">>, <<"H","T","T","P">>, <<"H","T","T","P","S">>,
    <<"I","D">>, <<"I","P">>, <<"J","S","O","N">>, <<"L","H","S">>,
    <<"O","S">>, <<"Q","P","S">>, <<"R","A","M">>, <<"R","H","S">>,
    <<"R","P","C">>, <<"S","L","A">>, <<"S","M","T","P">>, <<"S","Q","L">>,
    <<"S","S","H">>, <<"T","C","P">>, <<"T","L","S">>, <<"T","T","L">>,
    <<"U","D","P">>, <<"U","I">>, <<"U","I","D">>, <<"U","U","I","D">>,
    <<"U","R","I">>, <<"U","R","L">>, <<"U","T","F","8">>, <<"V","M">>,
    <<"X","M","L">>, <<"X","M","P","P">>, <<"X","S","R","F">>,
    <<"X","S","S">>, <<"O","A","u","t","h">> }

\* the prefix lengths the loop of startsWithInitialism tries
InitialismLens == 1..5

SetMax(S) == CHOOSE m \in S : \A n \in S : n <= m
SetMin(S) == CHOOSE m \in S : \A n \in S : m <= n

\* the prefix lengths i at which commonInitialisms[s[:i]] holds
InitialismHits(s) ==
  { i \in InitialismLens : Len(s) > i - 1 /\ SubSeq(s, 1, i) \in commonInitialisms }

\* a variant that stops at the first hit instead of keeping the last one
startsWithInitialismFirstHit(s) ==
  IF InitialismHits(s) = {} THEN <<>> ELSE SubSeq(s, 1, SetMin(InitialismHits(s)))

\* the loop overwrites initialism at every hit: the longest hit is returned
startsWithInitialism(s) ==
  IF InitialismHits(s) = {} THEN <<>> ELSE SubSeq(s, 1, SetMax(InitialismHits(s)))

\* the for loop of CamelToSnake, from index i (0-based) on; yields lastPos and words
RECURSIVE CamelScan(_, _, _, _)
CamelScan(s, i, lastPos, words) ==
  IF i >= Len(s) THEN [lastPos |-> lastPos, words |-> words]
  ELSE IF i > 0 /\ IsUpper(s[i + 1]) THEN
    LET initialism == startsWithInitialism(Slice(s, lastPos, Len(s))) IN
    IF initialism # <<>>
    THEN \* i += len(initialism) - 1; lastPos = i; continue (then i++)
         CamelScan(s, i + Len(initialism), i + Len(initialism) - 1, Append(words, initialism))
    ELSE CamelScan(s, i + 1, i, Append(words, Slice(s, lastPos, i)))
  ELSE CamelScan(s, i + 1, lastPos, words)

CamelToSnake(s) ==
  LET scan  == CamelScan(s, 0, 0, <<>>)
      last  == Slice(s, scan.lastPos, Len(s))
      words == IF last # <<>> THEN Append(scan.words, last) ELSE scan.words
  IN JoinStr([k \in DOMAIN words |-> Str(ToLower(words[k]))], "_")

-----------------------------------------------------------------------------
(* go/types type descriptors, struct fields and struct tags.               *)

Basic(n)      == [kind |-> "Basic", name |-> n]
Named(p, n)   == [kind |-> "Named", path |-> p, name |-> n]
SliceOf(e)    == [kind |-> "Slice", elem |-> e]
ArrayOf(n, e) == [kind |-> "Array", len |-> n, elem |-> e]
MapOf(k, e)   == [kind |-> "Map", key |-> k, elem |-> e]
PointerTo(e)  == [kind |-> "Pointer", elem |-> e]
StructOf(fs)  == [kind |-> "Struct", fields |-> fs]
ChanOf(e)     == [kind |-> "Chan", elem |-> e]
Signature     == [kind |-> "Signature"]
Interface     == [kind |-> "Interface"]

\* reflect.StructTag.Lookup yields (value, ok) for a key of the tag string
Has(v) == [ok |-> TRUE, value |-> v]
NoKey  == [ok |-> FALSE, value |-> <<>>]
Tag(j, a, t) == [json |-> j, athena |-> a, test |-> t]
Lookup(tags, key) == tags[key]

-----------------------------------------------------------------------------
(* The record types of fixture/fixture.go.                                 *)

User ==
  StructOf(<<
      [name |-> <<"U","s","e","r","I","D">>, type |-> Basic("int64"), tag |-> Tag(Has(<<"u","s","e","r","_","i","d">>), NoKey, NoKey)],
      [name |-> <<"N","a","m","e">>, type |-> Basic("string"), tag |-> Tag(Has(<<"n","a","m","e">>), NoKey, NoKey)] >>)

Comment ==
  StructOf(<<
      [name |-> <<"t","e","x","t">>, type |-> Basic("string"), tag |-> Tag(NoKey, NoKey, NoKey)],
      [name |-> <<"A","u","t","h","o","r">>, type |-> Named("fixture", "User"), tag |-> Tag(Has(<<"a","u","t","h","o","r","_","i","n","f","o">>), NoKey, Has(<<>>))] >>)

Post ==
  StructOf(<<
      [name |-> <<"A","u","t","h","o","r">>, type |-> Named("fixture", "User"), tag |-> Tag(Has(<<"a","u","t","h","o","r","_","i","n","f","o">>), NoKey, Has(<<>>))],
      [name |-> <<"C","o","m","m","e","n","t","s">>, type |-> SliceOf(Named("fixture", "Comment")), tag |-> Tag(Has(<<"c","o","m","m","e","n","t","s">>), NoKey, NoKey)],
      [name |-> <<"T","w","o","C","o","m","m","e","n","t","s">>, type |-> ArrayOf(2, Named("fixture", "Comment")), tag |-> Tag(Has(<<"t","w","o","_","c","o","m","m","e","n","t","s">>), NoKey, NoKey)],
      [name |-> <<"T","a","g","s">>, type |-> PointerTo(SliceOf(PointerTo(Basic("string")))), tag |-> Tag(Has(<<"t","a","g","s">>), NoKey, NoKey)],
      [name |-> <<"C","r","e","a","t","e","d","A","t">>, type |-> Named("time", "Time"), tag |-> Tag(Has(<<"c","r","e","a","t","e","d","_","a","t">>), NoKey, NoKey)],
      [name |-> <<"U","p","d","a","t","e","d","A","t">>, type |-> Basic("string"), tag |-> Tag(NoKey, Has(<<"t","i","m","e","s","t","a","m","p">>), NoKey)] >>)

HttpLog ==
  StructOf(<<
      [name |-> <<"R","e","q","u","e","s","t","r">>, type |-> Named("fixture", "Request"), tag |-> Tag(Has(<<"r","e","q","u","e","s","t","_","p","a","r","a","m","e","t","e","r">>), NoKey, NoKey)],
      [name |-> <<"R","e","s","p","o","n","s","e">>, type |-> Named("fixture", "Response"), tag |-> Tag(Has(<<"r","e","s","p","o","n","s","e",",","o","m","i","t","e","m","p","t","y">>), NoKey, NoKey)] >>)

Request ==
  StructOf(<<
      [name |-> <<"M","e","t","h","o","d">>, type |-> Basic("string"), tag |-> Tag(Has(<<"m","e","t","h","o","d">>), NoKey, NoKey)],
      [name |-> <<"U","R","L">>, type |-> Basic("string"), tag |-> Tag(Has(<<"u","r","l">>), NoKey, NoKey)],
      [name |-> <<"H","T","T","P","H","e","a","d","e","r">>, type |-> MapOf(Basic("string"), SliceOf(Basic("string"))), tag |-> Tag(Has(<<"h","t","t","p","_","h","e","a","d","e","r">>), NoKey, NoKey)],
      [name |-> <<"R","e","q","u","e","s","t","B","o","d","y">>, type |-> Basic("string"), tag |-> Tag(Has(<<"r","e","q","u","e","s","t","_","b","o","d","y">>), NoKey, NoKey)],
      [name |-> <<"Q","u","e","r","y","P","a","r","a","m","e","t","e","r">>, type |-> Basic("string"), tag |-> Tag(Has(<<"q","u","e","r","y","_","p","a","r","a","m","e","t","e","r">>), NoKey, NoKey)] >>)

Response ==
  StructOf(<<
      [name |-> <<"S","t","a","t","u","s","C","o","d","e">>, type |-> Basic("int"), tag |-> Tag(Has(<<"s","t","a","t","u","s","_","c","o","d","e">>), NoKey, NoKey)],
      [name |-> <<"H","T","T","P","H","e","a","d","e","r">>, type |-> Named("net/http", "Header"), tag |-> Tag(Has(<<"h","t","t","p","_","h","e","a","d","e","r">>), NoKey, NoKey)],
      [name |-> <<"R","e","s","p","o","n","s","e","B","o","d","y">>, type |-> Basic("string"), tag |-> Tag(Has(<<"r","e","s","p","o","n","s","e","_","b","o","d","y">>), NoKey, NoKey)] >>)

Time ==
  StructOf(<<
      [name |-> <<"w","a","l","l">>, type |-> Basic("uint64"), tag |-> Tag(NoKey, NoKey, NoKey)],
      [name |-> <<"e","x","t">>, type |-> Basic("int64"), tag |-> Tag(NoKey, NoKey, NoKey)],
      [name |-> <<"l","o","c">>, type |-> PointerTo(Named("time", "Location")), tag |-> Tag(NoKey, NoKey, NoKey)] >>)

Location ==
  StructOf(<<
      [name |-> <<"n","a","m","e">>, type |-> Basic("string"), tag |-> Tag(NoKey, NoKey, NoKey)],
      [name |-> <<"c","a","c","h","e","S","t","a","r","t">>, type |-> Basic("int64"), tag |-> Tag(NoKey, NoKey, NoKey)],
      [name |-> <<"c","a","c","h","e","E","n","d">>, type |-> Basic("int64"), tag |-> Tag(NoKey, NoKey, NoKey)] >>)

Handler ==
  StructOf(<<
      [name |-> <<"N","a","m","e">>, type |-> Basic("string"), tag |-> Tag(NoKey, NoKey, NoKey)],
      [name |-> <<"F","n">>, type |-> Signature, tag |-> Tag(NoKey, NoKey, NoKey)] >>)

Route ==
  StructOf(<<
      [name |-> <<"P","a","t","h">>, type |-> Basic("string"), tag |-> Tag(NoKey, NoKey, NoKey)],
      [name |-> <<"H","a","n","d","l","e","r","s">>, type |-> SliceOf(Named("sample", "Handler")), tag |-> Tag(NoKey, NoKey, NoKey)] >>)

Counter ==
  StructOf(<<
      [name |-> <<"N">>, type |-> Basic("uint"), tag |-> Tag(NoKey, NoKey, NoKey)] >>)

Node ==
  StructOf(<<
      [name |-> <<"V","a","l">>, type |-> Basic("int"), tag |-> Tag(NoKey, NoKey, NoKey)],
      [name |-> <<"N","e","x","t">>, type |-> PointerTo(Named("sample", "Node")), tag |-> Tag(NoKey, NoKey, NoKey)] >>)

Safe ==
  StructOf(<<
      [name |-> <<"V","a","l">>, type |-> Basic("int"), tag |-> Tag(NoKey, NoKey, NoKey)],
      [name |-> <<"S","e","l","f">>, type |-> PointerTo(Named("sample", "Safe")), tag |-> Tag(Has(<<"-">>), NoKey, NoKey)] >>)

Early ==
  StructOf(<<
      [name |-> <<"F","n">>, type |-> Signature, tag |-> Tag(NoKey, NoKey, NoKey)],
      [name |-> <<"N","e","x","t">>, type |-> PointerTo(Named("sample", "Early")), tag |-> Tag(NoKey, NoKey, NoKey)] >>)

Ping ==
  StructOf(<<
      [name |-> <<"P","o","n","g">>, type |-> PointerTo(Named("sample", "Pong")), tag |-> Tag(NoKey, NoKey, NoKey)] >>)

Pong ==
  StructOf(<<
      [name |-> <<"P","i","n","g","s">>, type |-> SliceOf(Named("sample", "Ping")), tag |-> Tag(NoKey, NoKey, NoKey)] >>)

\* net/http.Header, the map type fixture.Response uses
Header == MapOf(Basic("string"), SliceOf(Basic("string")))

\* a named non-struct type, declared in a package that also imports time
Stamp == Basic("int64")

\* object.Type().Underlying() of a named type, by its qualified name
TypeDecl ==
  [q \in { "fixture.User", "fixture.Comment", "fixture.Post", "fixture.HttpLog",
           "fixture.Request", "fixture.Response", "net/http.Header",
           "time.Time", "time.Location", "sample.Time", "sample.Handler",
           "sample.Route", "sample.Counter", "sample.Node", "sample.Safe",
           "sample.Early", "sample.Ping", "sample.Pong" } |->
     CASE q = "fixture.User"     -> User
       [] q = "fixture.Comment"  -> Comment
       [] q = "fixture.Post"     -> Post
       [] q = "fixture.HttpLog"  -> HttpLog
       [] q = "fixture.Request"  -> Request
       [] q = "fixture.Response" -> Response
       [] q = "net/http.Header"  -> Header
       [] q = "time.Time"        -> Time
       [] q = "time.Location"    -> Location
       [] q = "sample.Time"      -> Stamp
       [] q = "sample.Handler"   -> Handler
       [] q = "sample.Route"     -> Route
       [] q = "sample.Counter"   -> Counter
       [] q = "sample.Node"      -> Node
       [] q = "sample.Safe"      -> Safe
       [] q = "sample.Early"     -> Early
       [] q = "sample.Ping"      -> Ping
       [] q = "sample.Pong"      -> Pong]

\* types.Type.String(): the printed form genSqlType looks up in SQLTypeMap.
\* A struct's printed form lists its fields; it is no key of SQLTypeMap.
RECURSIVE TypeString(_)
TypeString(t) ==
  CASE t.kind = "Basic"     -> t.name
    [] t.kind = "Named"     -> t.path \o "." \o t.name
    [] t.kind = "Slice"     -> "[]" \o TypeString(t.elem)
    [] t.kind = "Array"     -> "[" \o ToString(t.len) \o "]" \o TypeString(t.elem)
    [] t.kind = "Map"       -> "map[" \o TypeString(t.key) \o "]" \o TypeString(t.elem)
    [] t.kind = "Pointer"   -> "*" \o TypeString(t.elem)
    [] t.kind = "Chan"      -> "chan " \o TypeString(t.elem)
    [] t.kind = "Signature" -> "func()"
    [] t.kind = "Interface" -> "interface{}"
    [] t.kind = "Struct"    ->
         "struct{" \o JoinStr([k \in DOMAIN t.fields |->
              Str(t.fields[k].name) \o " " \o TypeString(t.fields[k].type)], "; ") \o "}"

\* types.Type.Underlying()
Underlying(t) == IF t.kind = "Named" THEN TypeDecl[TypeString(t)] ELSE t

-----------------------------------------------------------------------------
(* genCoulmns and genSqlType.                                              *)

SQLTypeMap ==
  ("bool" :> "boolean") @@ ("string" :> "string") @@ ("int" :> "int") @@
  ("int8" :> "int") @@ ("int16" :> "int") @@ ("int32" :> "int") @@
  ("int64" :> "int") @@ ("uint8" :> "int") @@ ("uint16" :> "int") @@
  ("uint32" :> "int") @@ ("uint64" :> "int") @@ ("float32" :> "float") @@
  ("float64" :> "double") @@ ("[]byte" :> "string") @@ ("time.Time" :> "timestamp")

\* a variant that takes the whole json value as the name
columnNameWholeTag(field) ==
  LET jsonTag == Lookup(field.tag, "json")
  IN IF jsonTag.ok THEN Str(jsonTag.value) ELSE CamelToSnake(field.name)

\* name := CamelToSnake(field.Name()), replaced by the first comma-separated
\* segment of the json tag when the key is present
columnName(field) ==
  LET jsonTag == Lookup(field.tag, "json")
  IN IF jsonTag.ok THEN Str(Split(jsonTag.value, ",")[1]) ELSE CamelToSnake(field.name)

\* a variant that never reads the athena key
typeOverrideIgnored(field) == ""

\* sqlType := "", replaced by the athena tag's value when the key is present
typeOverride(field) ==
  LET athenaType == Lookup(field.tag, "athena")
  IN IF athenaType.ok THEN Str(athenaType.value) ELSE ""

\* a variant that drops only when both markers are present
isDroppedBoth(name, sqlType) == name = "-" /\ sqlType = "-"

\* a variant that looks at the name only
isDroppedNameOnly(name, sqlType) == name = "-"

\* if name == "-" || sqlType == "-" { continue }
isDropped(name, sqlType) == name = "-" \/ sqlType = "-"

\* Results.  status is "ok"; "fail" (genSqlType returned "", false); "fatal"
\* (log.Fatalf ended the process, field names the field); or "overflow" (the
\* nesting of calls went beyond MaxDepth).
SqlOk(s)        == [status |-> "ok", str |-> s, field |-> ""]
SqlFail         == [status |-> "fail", str |-> "", field |-> ""]
SqlAbort(st, f) == [status |-> st, str |-> "", field |-> f]

RECURSIVE genSqlType(_, _), genCoulmnsFrom(_, _, _, _, _)

\* genCoulmns' loop from field i on; resolved lists the positions of the fields
\* whose declared type was handed to genSqlType
genCoulmnsFrom(fields, i, columns, resolved, d) ==
  IF i > Len(fields)
  THEN [status |-> "ok", columns |-> columns, field |-> "", resolved |-> resolved]
  ELSE
    LET field   == fields[i]
        name    == columnName(field)
        sqlType == typeOverride(field)
    IN IF isDropped(name, sqlType)
       THEN genCoulmnsFrom(fields, i + 1, columns, resolved, d)
       ELSE IF sqlType = ""
       THEN LET r == genSqlType(field.type, d - 1)
            IN CASE r.status = "ok" ->
                      genCoulmnsFrom(fields, i + 1,
                        Append(columns, [Name |-> name, Type |-> r.str]),
                        Append(resolved, i), d)
                 [] r.status = "fail" ->
                      [status |-> "fatal", columns |-> columns,
                       field |-> Str(field.name), resolved |-> Append(resolved, i)]
                 [] OTHER ->
                      [status |-> r.status, columns |-> columns,
                       field |-> r.field, resolved |-> Append(resolved, i)]
       ELSE genCoulmnsFrom(fields, i + 1,
              Append(columns, [Name |-> name, Type |-> sqlType]), resolved, d)

genCoulmns(fields, d) ==
  IF d = 0
  THEN [status |-> "overflow", columns |-> <<>>, field |-> "", resolved |-> <<>>]
  ELSE genCoulmnsFrom(fields, 1, <<>>, <<>>, d)

genSqlType(fieldType, d) ==
  IF d = 0 THEN SqlAbort("overflow", "")
  ELSE IF TypeString(fieldType) \in DOMAIN SQLTypeMap
  THEN SqlOk(SQLTypeMap[TypeString(fieldType)])
  ELSE
    CASE fieldType.kind \in {"Slice", "Array"} ->
           LET r == genSqlType(fieldType.elem, d - 1)
           IN IF r.status # "ok" THEN r ELSE SqlOk("array<" \o r.str \o ">")
      [] fieldType.kind = "Struct" ->
           LET r == genCoulmns(fieldType.fields, d - 1)
               columnStrs == [k \in DOMAIN r.columns |->
                                r.columns[k].Name \o ": " \o r.columns[k].Type]
           IN IF r.status # "ok" THEN SqlAbort(r.status, r.field)
              ELSE SqlOk("struct<" \o JoinStr(columnStrs, ", ") \o ">")
      [] fieldType.kind = "Map" ->
           LET key == genSqlType(fieldType.key, d - 1)
           IN IF key.status # "ok" THEN key
              ELSE LET value == genSqlType(fieldType.elem, d - 1)
                   IN IF value.status # "ok" THEN value
                      ELSE SqlOk("map<" \o key.str \o ", " \o value.str \o ">")
      [] fieldType.kind = "Pointer" ->
           genSqlType(fieldType.elem, d - 1)
      [] fieldType.kind = "Named" ->
           genSqlType(Underlying(fieldType), d - 1)
      [] OTHER -> SqlFail

-----------------------------------------------------------------------------
(* Packages: what parsePackage leaves in g.pkg.                            *)

TypeObj(t) == [kind |-> "TypeName", type |-> t]
ConstObj   == [kind |-> "Const", type |-> Basic("string")]

\* path -> scope (name -> object) and direct imports (in Imports() order)
Packages ==
  [ fixture |->
      [ scope   |-> [n \in {"User", "Comment", "Post", "HttpLog", "Request", "Response"} |->
                       TypeObj(Named("fixture", n))],
        imports |-> <<"net/http", "time">> ],
    sample |->
      [ scope   |-> [n \in {"Time", "Handler", "Route", "Counter", "Node", "Safe",
                            "Early", "Ping", "Pong", "Version"} |->
                       IF n = "Version" THEN ConstObj ELSE TypeObj(Named("sample", n))],
        imports |-> <<"time">> ] ] @@
  ("net/http" :>
      [ scope   |-> [n \in {"Header"} |-> TypeObj(Named("net/http", n))],
        imports |-> <<"time">> ]) @@
  ("time" :>
      [ scope   |-> [n \in {"Time", "Location"} |-> TypeObj(Named("time", n))],
        imports |-> <<>> ])

NotFound == [ok |-> FALSE, struct |-> StructOf(<<>>)]

\* the if at the head of searchStruct: the name is a type name of the package's
\* scope and its underlying type is a struct
scopeStruct(typeName, p) ==
  LET scope == Packages[p].scope
  IN IF Str(typeName) \in DOMAIN scope
        /\ scope[Str(typeName)].kind = "TypeName"
        /\ Underlying(scope[Str(typeName)].type).kind = "Struct"
     THEN [ok |-> TRUE, struct |-> Underlying(scope[Str(typeName)].type)]
     ELSE NotFound

RECURSIVE searchStruct(_, _), searchImports(_, _, _)

\* the loop of searchStruct over pkg.Imports(), from import k on
searchImports(typeName, p, k) ==
  IF k > Len(Packages[p].imports) THEN NotFound
  ELSE LET r == searchStruct(typeName, Packages[p].imports[k])
       IN IF r.ok THEN r ELSE searchImports(typeName, p, k + 1)

searchStruct(typeName, p) ==
  IF scopeStruct(typeName, p).ok THEN scopeStruct(typeName, p)
  ELSE searchImports(typeName, p, 1)

-----------------------------------------------------------------------------
(* main and Generator.generate.                                            *)

\* make([]string, n) followed by copy(dst, list)
makeCopy(n, list) == [k \in 1..n |-> IF k <= Len(list) THEN list[k] ELSE <<>>]

\* a variant that defaults the folder name from the type name
tableOfFolderFromType(state, columns) ==
  LET tableName  == IF state.tableName = <<>> THEN CamelToSnake(state.typeName)
                    ELSE Str(state.tableName)
      folderName == IF state.folderName = <<>> THEN CamelToSnake(state.typeName)
                    ELSE Str(state.folderName)
  IN [TableName |-> tableName, FolderName |-> folderName, Columns |-> columns]

\* the Table generate builds from its State and the columns
tableOf(state, columns) ==
  LET tableName  == IF state.tableName = <<>> THEN CamelToSnake(state.typeName)
                    ELSE Str(state.tableName)
      folderName == IF state.folderName = <<>> THEN tableName
                    ELSE Str(state.folderName)
  IN [TableName |-> tableName, FolderName |-> folderName, Columns |-> columns]

\* Generator.generate on one State: the table, or how the call ends otherwise
generate(state, p) ==
  LET found == searchStruct(state.typeName, p)
      cols  == genCoulmns(found.struct.fields, MaxDepth)
  IN IF ~found.ok
     THEN [status |-> "fatal",
           msg |-> "Not found specifed name struct: " \o Str(state.typeName)]
     ELSE IF cols.status = "fatal"
     THEN [status |-> "fatal", msg |-> "no support field type: " \o cols.field]
     ELSE IF cols.status = "overflow"
     THEN [status |-> "overflow", msg |-> ""]
     ELSE [status |-> "ok", msg |-> "", table |-> tableOf(state, cols.columns)]

\* the command lines and packages the model starts from
TypeNamePool ==
  { <<"U","s","e","r">>, <<"P","o","s","t">>, <<"H","t","t","p","L","o","g">>,
    <<"T","i","m","e">>, <<"H","e","a","d","e","r">>, <<"N","o","p","e">>,
    <<"R","o","u","t","e">>, <<"N","o","d","e">>, <<"S","a","f","e">>,
    <<"E","a","r","l","y">>, <<"P","i","n","g">> }

TableFlagPool ==
  { <<>>, <<"t","1">>, <<",","t","2">>, <<"t","1",",","t","2",",","t","3",",","t","4">> }

FolderFlagPool ==
  { <<>>, <<"f","1">>, <<",","f","2",",","f","3",",","f","4">> }

RECURSIVE JoinChars(_, _)
JoinChars(list, sep) ==
  IF list = <<>> THEN <<>>
  ELSE IF Len(list) = 1 THEN list[1]
  ELSE list[1] \o <<sep>> \o JoinChars(Tail(list), sep)

TypeFlagPool ==
  { JoinChars(l, ",") : l \in UNION { [1..n -> TypeNamePool] : n \in 0..MaxTypes } }

MainIdle ==
  /\ flags = None /\ pkg = None
  /\ typeNames = <<>> /\ tableNames = <<>> /\ folderNames = <<>>
  /\ idx = 0 /\ tables = <<>> /\ src = NoOutput /\ file = NoOutput /\ exit = Running

CallIdle == arg = None /\ ret = None

Init ==
  /\ pc = "start"
  /\ flags \in [type : TypeFlagPool, table : TableFlagPool, folder : FolderFlagPool]
  /\ pkg \in {"fixture", "sample"}
  /\ typeNames = <<>> /\ tableNames = <<>> /\ folderNames = <<>>
  /\ idx = 0 /\ tables = <<>> /\ src = NoOutput /\ file = NoOutput /\ exit = Running
  /\ CallIdle

\* main, lines 52-55: no -type value, usage and exit status 2
Usage ==
  /\ pc = "start"
  /\ Len(flags.type) = 0
  /\ pc' = "exit"
  /\ exit' = [code |-> 2, msg |-> "usage", at |-> "usage"]
  /\ UNCHANGED <<arg, ret, flags, pkg, typeNames, tableNames, folderNames, idx, tables, src, file>>

\* main, lines 57-103: the three lists, and the package is parsed
ParseFlags ==
  /\ pc = "start"
  /\ Len(flags.type) # 0
  /\ typeNames' = Split(flags.type, ",")
  /\ tableNames' = makeCopy(Len(Split(flags.type, ",")), Split(flags.table, ","))
  /\ folderNames' = makeCopy(Len(Split(flags.type, ",")), Split(flags.folder, ","))
  /\ pc' = "generate"
  /\ UNCHANGED <<arg, ret, flags, pkg, idx, tables, src, file, exit>>

\* main, lines 97-103: the directory cannot be read, or the package does not parse
\* or type-check (log.Fatal in isDirectory, parsePackageDir, parsePackage)
ParsePackageFails ==
  /\ pc = "start"
  /\ Len(flags.type) # 0
  /\ typeNames' = Split(flags.type, ",")
  /\ tableNames' = makeCopy(Len(Split(flags.type, ",")), Split(flags.table, ","))
  /\ folderNames' = makeCopy(Len(Split(flags.type, ",")), Split(flags.folder, ","))
  /\ pc' = "exit"
  /\ exit' = [code |-> 1, msg |-> "checking package", at |-> "parse"]
  /\ UNCHANGED <<arg, ret, flags, pkg, idx, tables, src, file>>

\* a variant of the loop body that skips a type it cannot generate
GenerateSkipping ==
  /\ pc = "generate"
  /\ idx < Len(typeNames)
  /\ LET r == generate([typeName   |-> typeNames[idx + 1],
                        tableName  |-> tableNames[idx + 1],
                        folderName |-> folderNames[idx + 1]], pkg)
     IN /\ tables' = IF r.status = "ok" THEN Append(tables, r.table) ELSE tables
        /\ idx' = idx + 1
        /\ UNCHANGED <<pc, exit>>
  /\ UNCHANGED <<arg, ret, flags, pkg, typeNames, tableNames, folderNames, src, file>>

\* main, lines 105-113: one iteration of the loop over typeNames
Generate ==
  /\ pc = "generate"
  /\ idx < Len(typeNames)
  /\ LET r == generate([typeName   |-> typeNames[idx + 1],
                        tableName  |-> tableNames[idx + 1],
                        folderName |-> folderNames[idx + 1]], pkg)
     IN CASE r.status = "ok" ->
               /\ tables' = Append(tables, r.table)
               /\ idx' = idx + 1
               /\ UNCHANGED <<pc, exit>>
          [] r.status = "fatal" ->
               /\ pc' = "exit"
               /\ exit' = [code |-> 1, msg |-> r.msg, at |-> "generate"]
               /\ UNCHANGED <<tables, idx>>
          [] OTHER ->
               /\ pc' = "recursing"
               /\ UNCHANGED <<tables, idx, exit>>
  /\ UNCHANGED <<arg, ret, flags, pkg, typeNames, tableNames, folderNames, src, file>>

\* main, line 116: g.format renders the template over g.tables
Format ==
  /\ pc = "generate"
  /\ idx = Len(typeNames)
  /\ src' = [Tables |-> tables]
  /\ pc' = "write"
  /\ UNCHANGED <<arg, ret, flags, pkg, typeNames, tableNames, folderNames, idx, tables, file, exit>>

\* g.format, lines 383-406: the template does not parse or execute
FormatFails ==
  /\ pc = "generate"
  /\ idx = Len(typeNames)
  /\ pc' = "exit"
  /\ exit' = [code |-> 1, msg |-> "Template parse error", at |-> "format"]
  /\ UNCHANGED <<arg, ret, flags, pkg, typeNames, tableNames, folderNames, idx, tables, src, file>>

\* main, lines 119-125: the output file is written
WriteFile ==
  /\ pc = "write"
  /\ file' = src
  /\ pc' = "exit"
  /\ exit' = [code |-> 0, msg |-> "", at |-> "end"]
  /\ UNCHANGED <<arg, ret, flags, pkg, typeNames, tableNames, folderNames, idx, tables, src>>

\* main, lines 126-128: ioutil.WriteFile returns an error
WriteFileFails ==
  /\ pc = "write"
  /\ pc' = "exit"
  /\ exit' = [code |-> 1, msg |-> "writing output", at |-> "write"]
  /\ UNCHANGED <<arg, ret, flags, pkg, typeNames, tableNames, folderNames, idx, tables, src, file>>

Next ==
  \/ Usage
  \/ ParseFlags
  \/ ParsePackageFails
  \/ Generate
  \/ Format
  \/ FormatFails
  \/ WriteFile
  \/ WriteFileFails

Spec == Init /\ [][Next]_vars

-----------------------------------------------------------------------------
(* genCoulmns on its own: one call on a struct drawn from bounded sets.    *)

FieldNamePool ==
  { <<"U","s","e","r","I","D">>, <<"C","r","e","a","t","e","d","A","t">> }

\* an anonymous struct used as a field's type
Inline ==
  StructOf(<<
      [name |-> <<"F","n">>, type |-> Signature,
       tag |-> Tag(NoKey, Has(<<"s","t","r","i","n","g">>), NoKey)],
      [name |-> <<"N","o","t","e">>, type |-> Basic("string"),
       tag |-> Tag(Has(<<",","o","m","i","t","e","m","p","t","y">>), NoKey, NoKey)] >>)

BasicNames ==
  { "bool", "string", "int", "int8", "int16", "int32", "int64", "uint", "uint8",
    "uint16", "uint32", "uint64", "float32", "float64", "byte" }

FieldTypePool ==
  { Basic(n) : n \in BasicNames } \cup
  { Named("time", "Time"), SliceOf(Basic("byte")), SliceOf(Basic("int32")),
    ArrayOf(2, Basic("string")), MapOf(Basic("string"), Basic("int64")),
    PointerTo(SliceOf(PointerTo(Basic("string")))),
    Signature, ChanOf(Basic("int")), Interface,
    Named("fixture", "User"), Named("sample", "Handler"), Named("sample", "Node"),
    Named("sample", "Safe"), Inline, SliceOf(Inline),
    MapOf(ChanOf(Basic("int")), Named("sample", "Node")) }

JsonTagPool ==
  { NoKey, Has(<<>>), Has(<<"-">>), Has(<<"x">>),
    Has(<<"x",",","o","m","i","t","e","m","p","t","y">>),
    Has(<<",","o","m","i","t","e","m","p","t","y">>), Has(<<"-",",">>) }

AthenaTagPool ==
  { NoKey, Has(<<>>), Has(<<"-">>), Has(<<"t","i","m","e","s","t","a","m","p">>) }

TestTagPool == { NoKey, Has(<<>>) }

SubjectFields ==
  { [name |-> n, type |-> t, tag |-> Tag(j, a, x)] :
      n \in FieldNamePool, t \in FieldTypePool,
      j \in JsonTagPool, a \in AthenaTagPool, x \in TestTagPool }

\* the other fields of the struct: a field of unsupported type marked "-", and a
\* plain string field; the k-th is named Fa, Fb, ...
FillerKinds == { "dropped", "plain" }

Filler(kind, k) ==
  [ name |-> <<"F", LowerChars[k]>>,
    type |-> IF kind = "dropped" THEN Signature ELSE Basic("string"),
    tag  |-> IF kind = "dropped" THEN Tag(Has(<<"-">>), NoKey, NoKey)
             ELSE Tag(NoKey, NoKey, NoKey) ]

InsertAt(s, p, x) == SubSeq(s, 1, p - 1) \o <<x>> \o SubSeq(s, p, Len(s))

FillerSeqs == UNION { [1..n -> FillerKinds] : n \in 0..(MaxFields - 1) }

InitGenCoulmns ==
  /\ pc = "call genCoulmns"
  /\ \E subj \in SubjectFields, ks \in FillerSeqs :
       \E p \in 1..(Len(ks) + 1) :
         arg = InsertAt([k \in DOMAIN ks |-> Filler(ks[k], k)], p, subj)
  /\ ret = None
  /\ MainIdle

CallGenCoulmns ==
  /\ pc = "call genCoulmns"
  /\ ret' = genCoulmns(arg, MaxDepth)
  /\ pc' = "ret genCoulmns"
  /\ UNCHANGED <<arg, flags, pkg, typeNames, tableNames, folderNames, idx, tables, src, file, exit>>

SpecGenCoulmns == InitGenCoulmns /\ [][CallGenCoulmns]_vars

-----------------------------------------------------------------------------
(* CamelToSnake on its own: one call on an identifier made of a dictionary *)
(* initialism and a capitalized word.                                      *)

LowerTails == UNION { [1..n -> {"a", "z"}] : n \in 1..MaxTail }

CapitalWords == { <<u>> \o t : u \in Range(UpperChars), t \in LowerTails }

SnakeShapes == { "I", "WI", "IW" }

\* the identifier of a shape: the initialism alone, behind the word, before it
SnakeInput(shape, i, w) ==
  [ shape |-> shape, initialism |-> i, word |-> IF shape = "I" THEN <<>> ELSE w,
    s |-> CASE shape = "I" -> i [] shape = "WI" -> w \o i [] shape = "IW" -> i \o w ]

InitCamelToSnake ==
  /\ pc = "call CamelToSnake"
  /\ \E shape \in SnakeShapes, i \in commonInitialisms, w \in CapitalWords :
       arg = SnakeInput(shape, i, w)
  /\ ret = None
  /\ MainIdle

CallCamelToSnake ==
  /\ pc = "call CamelToSnake"
  /\ ret' = CamelToSnake(arg.s)
  /\ pc' = "ret CamelToSnake"
  /\ UNCHANGED <<arg, flags, pkg, typeNames, tableNames, folderNames, idx, tables, src, file, exit>>

SpecCamelToSnake == InitCamelToSnake /\ [][CallCamelToSnake]_vars

-----------------------------------------------------------------------------
(* Properties of CamelToSnake (SpecCamelToSnake).                          *)

Lower(s) == Str(ToLower(s))

\* the initialism followed by the first letter of the word is a longer initialism
Absorbs(i, w) == Append(i, w[1]) \in commonInitialisms

\* C8 as stated: every dictionary initialism I is one whole segment, alone, behind
\* a capitalized word W and before it: CamelToSnake(I) = lower(I),
\* CamelToSnake(W+I) = lower(W)_lower(I), CamelToSnake(I+W) = lower(I)_lower(W);
\* the initialism never absorbs the first letter of the following word.
C8_InitialismNeverAbsorbs ==
  pc = "ret CamelToSnake" =>
    ret = CASE arg.shape = "I"  -> Lower(arg.initialism)
            [] arg.shape = "WI" -> Lower(arg.word) \o "_" \o Lower(arg.initialism)
            [] arg.shape = "IW" -> Lower(arg.initialism) \o "_" \o Lower(arg.word)

\* C8 amended: as above, except that in I+W the longest dictionary initialism the
\* identifier starts with is the segment: when I followed by the first letter of W
\* is itself in the dictionary (UI+D.., HTTP+S..), that letter belongs to the
\* initialism and the rest of W is the next segment.
C8_InitialismLongestMatch ==
  pc = "ret CamelToSnake" =>
    ret = CASE arg.shape = "I"  -> Lower(arg.initialism)
            [] arg.shape = "WI" -> Lower(arg.word) \o "_" \o Lower(arg.initialism)
            [] arg.shape = "IW" ->
                 IF Absorbs(arg.initialism, arg.word)
                 THEN Lower(Append(arg.initialism, arg.word[1])) \o "_" \o Lower(Tail(arg.word))
                 ELSE Lower(arg.initialism) \o "_" \o Lower(arg.word)

\* an initialism before a word whose first letter extends it has been converted
C8_Witness ==
  /\ pc = "ret CamelToSnake"
  /\ arg.shape = "IW"
  /\ Absorbs(arg.initialism, arg.word)
  /\ ret = "https_a"

-----------------------------------------------------------------------------
(* Properties of genCoulmns (SpecGenCoulmns), in terms of the tags.        *)

Returned == pc = "ret genCoulmns"

HasKey(f, key)  == f.tag[key].ok
KeyValue(f, key) == Str(f.tag[key].value)

\* the text of a tag value before its first comma
BeforeComma(s) ==
  LET commas == { k \in DOMAIN s : s[k] = "," }
  IN IF commas = {} THEN s ELSE SubSeq(s, 1, SetMin(commas) - 1)

JsonName(f) == Str(BeforeComma(f.tag.json.value))

\* the field carries a drop marker
MarkedDrop(f) ==
  \/ HasKey(f, "json") /\ JsonName(f) = "-"
  \/ HasKey(f, "athena") /\ KeyValue(f, "athena") = "-"

\* the position at which the loop over the fields stopped, if it did
StoppedAt == ret.resolved[Len(ret.resolved)]

\* the loop reached field i / went through field i without ending the run
Reached(i)   == ret.status = "ok" \/ i <= StoppedAt
Processed(i) == ret.status = "ok" \/ i < StoppedAt

\* the column of field i among those emitted, when i is not dropped
ColumnOf(i) == ret.columns[Cardinality({ k \in 1..i : ~MarkedDrop(arg[k]) })]

Emitted(i) == Processed(i) /\ ~MarkedDrop(arg[i])

\* C1 as stated: a field whose tag has the athena key, whatever its value (the empty
\* value included), is never handed to genSqlType, so never aborts the run, and its
\* column's Type is the raw tag value.
C1_OverrideAnyValue ==
  Returned =>
    \A i \in DOMAIN arg :
      HasKey(arg[i], "athena") =>
        /\ i \notin Range(ret.resolved)
        /\ Emitted(i) => ColumnOf(i).Type = KeyValue(arg[i], "athena")

\* C1 amended: the same for every field whose athena value is not empty; an empty
\* athena value is treated as no override (the declared type is resolved).
C1_OverrideNonEmpty ==
  Returned =>
    \A i \in DOMAIN arg :
      /\ (HasKey(arg[i], "athena") /\ KeyValue(arg[i], "athena") # "") =>
           /\ i \notin Range(ret.resolved)
           /\ Emitted(i) => ColumnOf(i).Type = KeyValue(arg[i], "athena")
      /\ (HasKey(arg[i], "athena") /\ KeyValue(arg[i], "athena") = "" /\ Reached(i)
            /\ ~MarkedDrop(arg[i])) =>
           i \in Range(ret.resolved)

\* a func field with athena:"timestamp" has been emitted with that type
C1_Witness ==
  /\ Returned
  /\ ret.status = "ok"
  /\ \E i \in DOMAIN arg :
       /\ arg[i].type = Signature
       /\ HasKey(arg[i], "athena") /\ KeyValue(arg[i], "athena") = "timestamp"
       /\ Emitted(i)
       /\ ColumnOf(i).Type = "timestamp"

Remaining(fields) == SelectSeq(fields, LAMBDA f : ~MarkedDrop(f))

\* C2: a field marked "-" by its json name or its athena value, whatever the other
\* key holds, yields no column and is never handed to genSqlType; the result is that
\* of the struct without the marked fields, columns in declaration order.
C2_DropMarker ==
  Returned =>
    /\ \A i \in DOMAIN arg : MarkedDrop(arg[i]) => i \notin Range(ret.resolved)
    /\ ret.status = "ok" => Len(ret.columns) = Len(Remaining(arg))
    /\ LET rest == genCoulmns(Remaining(arg), MaxDepth)
       IN /\ rest.status = ret.status
          /\ rest.columns = ret.columns
          /\ rest.field = ret.field

\* a func field dropped by athena:"-" while its json key names it, beside an
\* emitted field
C2_Witness ==
  /\ Returned
  /\ ret.status = "ok"
  /\ Len(ret.columns) >= 1
  /\ \E i \in DOMAIN arg :
       /\ arg[i].type = Signature
       /\ KeyValue(arg[i], "athena") = "-" /\ HasKey(arg[i], "athena")
       /\ HasKey(arg[i], "json") /\ JsonName(arg[i]) = "x"

\* C3: an emitted column's Name is the first comma-separated segment of the json
\* value when the json key is present, and CamelToSnake(field name) otherwise,
\* whatever the other keys are.
C3_ColumnName ==
  Returned =>
    \A i \in DOMAIN arg :
      Emitted(i) =>
        ColumnOf(i).Name =
          IF HasKey(arg[i], "json") THEN JsonName(arg[i]) ELSE CamelToSnake(arg[i].name)

\* a field tagged json:"x,omitempty" with test and athena keys is emitted as x
C3_Witness ==
  /\ Returned
  /\ ret.status = "ok"
  /\ \E i \in DOMAIN arg :
       /\ HasKey(arg[i], "json") /\ KeyValue(arg[i], "json") = "x,omitempty"
       /\ HasKey(arg[i], "test") /\ HasKey(arg[i], "athena")
       /\ Emitted(i)
       /\ ColumnOf(i).Name = "x"

\* the canonical token of each primitive kind C4 lists
CanonicalToken ==
  [n \in { "bool", "int", "int8", "int16", "int32", "int64", "uint", "uint8",
           "uint16", "uint32", "uint64", "float32", "float64", "string", "time.Time" } |->
     CASE n = "bool"      -> "boolean"
       [] n = "float32"   -> "float"
       [] n = "float64"   -> "double"
       [] n = "string"    -> "string"
       [] n = "time.Time" -> "timestamp"
       [] OTHER           -> "int"]

\* C4: a field of a listed primitive kind with no athena key resolves, at any
\* position, to the kind's canonical token: bool -> boolean, every signed and
\* unsigned integer kind -> int, float32 -> float, float64 -> double,
\* string -> string, time.Time -> timestamp.
C4_PrimitiveTokens ==
  Returned =>
    \A i \in DOMAIN arg :
      ( /\ arg[i].type.kind \in {"Basic", "Named"}
        /\ TypeString(arg[i].type) \in DOMAIN CanonicalToken
        /\ ~HasKey(arg[i], "athena")
        /\ ~MarkedDrop(arg[i])
        /\ Reached(i) ) =>
        /\ Processed(i)
        /\ ColumnOf(i).Type = CanonicalToken[TypeString(arg[i].type)]

\* the columns of the structs nested directly in the fields of the argument
NestedColumns(i) ==
  IF arg[i].type.kind = "Struct"
  THEN genCoulmns(arg[i].type.fields, MaxDepth).columns
  ELSE <<>>

\* C10: every emitted column, at the top level and inside a nested struct, has a
\* non-empty Name and a non-empty Type, whatever the json and athena values are.
C10_NonEmptyColumn ==
  Returned =>
    /\ \A k \in DOMAIN ret.columns :
         ret.columns[k].Name # "" /\ ret.columns[k].Type # ""
    /\ \A i \in DOMAIN arg : \A k \in DOMAIN NestedColumns(i) :
         NestedColumns(i)[k].Name # "" /\ NestedColumns(i)[k].Type # ""

-----------------------------------------------------------------------------
(* Properties of main (Spec), in terms of the command line and the types.  *)

\* the comma-separated entries of a flag value, by the positions of its commas
CommaSet(flag)    == { k \in DOMAIN flag : flag[k] = "," }
EntryCount(flag)  == Cardinality(CommaSet(flag)) + 1
CommaAt(flag, n)  ==
  CHOOSE k \in CommaSet(flag) : Cardinality({ j \in CommaSet(flag) : j <= k }) = n
Entry(flag, i)    ==
  SubSeq(flag,
         IF i = 1 THEN 1 ELSE CommaAt(flag, i - 1) + 1,
         IF i <= Cardinality(CommaSet(flag)) THEN CommaAt(flag, i) - 1 ELSE Len(flag))
EntryOrEmpty(flag, i) == IF i <= EntryCount(flag) THEN Entry(flag, i) ELSE <<>>

Requested(i) == Entry(flags.type, i)
NRequested   == EntryCount(flags.type)

\* the run got past the command line; it ended well
Started   == pc # "start" /\ flags.type # <<>>
Succeeded == pc = "exit" /\ exit.code = 0

\* the packages searchStruct can visit from p
RECURSIVE ImportClosure(_, _)
ImportClosure(frontier, seen) ==
  IF frontier \subseteq seen THEN seen
  ELSE ImportClosure(UNION { Range(Packages[q].imports) : q \in frontier \ seen },
                     seen \cup frontier)

DeclaredAs(q, n) ==
  IF n \in DOMAIN Packages[q].scope /\ Packages[q].scope[n].kind = "TypeName"
  THEN Underlying(Packages[q].scope[n].type).kind
  ELSE "undeclared"

\* C5: generate fails, appending no Table, when the requested name cannot be found
\* and when it is found in the package scope but is not a struct; a Table is
\* appended only for a name declared as a record type.
C5_NotARecordIsFatal ==
  Started =>
    \A i \in 1..Len(tables) :
      /\ DeclaredAs(pkg, Str(Requested(i))) \in {"Struct", "undeclared"}
      /\ \E q \in ImportClosure({pkg}, {}) : DeclaredAs(q, Str(Requested(i))) = "Struct"

\* the field's declared type is what decides its column type
NeedsResolving(f) ==
  /\ ~MarkedDrop(f)
  /\ ~(HasKey(f, "athena") /\ KeyValue(f, "athena") # "")

\* the types genSqlType is handed when it resolves t: live = TRUE follows only the
\* fields whose declared type is resolved, live = FALSE every field
Children(t, live) ==
  IF TypeString(t) \in DOMAIN SQLTypeMap THEN {}
  ELSE CASE t.kind \in {"Slice", "Array", "Pointer"} -> {t.elem}
         [] t.kind = "Map"    -> {t.key, t.elem}
         [] t.kind = "Named"  -> {Underlying(t)}
         [] t.kind = "Struct" ->
              { t.fields[k].type :
                  k \in { j \in DOMAIN t.fields : ~live \/ NeedsResolving(t.fields[j]) } }
         [] OTHER -> {}

RECURSIVE TypeClosure(_, _, _)
TypeClosure(frontier, seen, live) ==
  IF frontier \subseteq seen THEN seen
  ELSE TypeClosure(UNION { Children(t, live) : t \in frontier \ seen },
                   seen \cup frontier, live)

\* the types reachable from t in one step or more
Descendants(t, live) == TypeClosure(Children(t, live), {}, live)

\* t is, directly or indirectly, a field of itself
SelfField(t, live) == t \in Descendants(t, live)

\* resolving t meets a type that is a field of itself
MeetsCycle(t) == \E u \in {t} \cup Descendants(t, TRUE) : SelfField(u, TRUE)

\* a type with no mapping: no key of SQLTypeMap and no case of genSqlType's switch
NoMapping(t) ==
  /\ TypeString(t) \notin DOMAIN SQLTypeMap
  /\ t.kind \notin {"Slice", "Array", "Struct", "Map", "Pointer", "Named"}

\* some field of t, at any nesting depth, needs resolving and has no mapping
Unresolvable(t) == \E u \in Descendants(t, TRUE) : NoMapping(u)

Found(i)    == searchStruct(Requested(i), pkg).ok
StructOfRequest(i) == searchStruct(Requested(i), pkg).struct

\* C6: the template is rendered and the file written only after every requested
\* type was found and every field that needs resolving, at any depth, resolved;
\* when a requested type is unknown or has such a field with no mapping, nothing
\* is rendered or written, whatever resolved before it, and the run does not go on
\* to the next types.
C6_NoPartialOutput ==
  Started =>
    /\ (src # NoOutput \/ file # NoOutput \/ Succeeded) =>
         /\ Len(tables) = NRequested
         /\ \A i \in 1..NRequested : Found(i) /\ ~Unresolvable(StructOfRequest(i))
    /\ \A i \in 1..NRequested :
         (~Found(i) \/ Unresolvable(StructOfRequest(i))) =>
           /\ src = NoOutput /\ file = NoOutput
           /\ Len(tables) < i /\ idx < i
           /\ pc \in {"generate", "exit", "recursing"}
           /\ pc = "exit" => exit.code = 1

\* the run aborted on its second type, a struct with a func field nested in a
\* slice, after the first one resolved; nothing was written
C6_Witness ==
  /\ pc = "exit" /\ exit.code = 1 /\ exit.at = "generate"
  /\ exit.msg = "no support field type: Fn"
  /\ Len(tables) = 1
  /\ NRequested = 2
  /\ Found(2) /\ Unresolvable(StructOfRequest(2))
  /\ Requested(2) = <<"R","o","u","t","e">>
  /\ src = NoOutput /\ file = NoOutput

\* C7: after a successful run over t1..tn, g.tables holds n tables, the i-th being
\* the one resolved for ti, named by the i-th -table entry when it exists and is
\* not empty and by CamelToSnake(ti) otherwise, its folder named by the i-th
\* -folder entry when not empty and by the table name otherwise; further entries
\* of -table and -folder are ignored.
ExpectedTableName(i) ==
  IF EntryOrEmpty(flags.table, i) # <<>> THEN Str(EntryOrEmpty(flags.table, i))
  ELSE CamelToSnake(Requested(i))

ExpectedFolderName(i) ==
  IF EntryOrEmpty(flags.folder, i) # <<>> THEN Str(EntryOrEmpty(flags.folder, i))
  ELSE ExpectedTableName(i)

C7_TablesInRequestOrder ==
  Started =>
    /\ (Succeeded \/ pc = "write") => Len(tables) = NRequested
    /\ Len(tables) <= NRequested
    /\ \A i \in 1..Len(tables) :
         /\ tables[i].TableName = ExpectedTableName(i)
         /\ tables[i].FolderName = ExpectedFolderName(i)
         /\ tables[i].Columns = genCoulmns(StructOfRequest(i).fields, MaxDepth).columns

\* a successful run over the same type twice, with more -table entries than types
\* and no -folder entry
C7_Witness ==
  /\ Succeeded
  /\ NRequested = 2 /\ Requested(1) = Requested(2)
  /\ EntryCount(flags.table) > NRequested
  /\ flags.folder = <<>>
  /\ Len(tables) = 2
  /\ tables[1].TableName = "t1" /\ tables[2].FolderName = "t2"

\* C9 as stated: for every record type that is directly or indirectly a field of
\* itself, resolving a table recurses without bound: the call never completes and
\* never reports a failure.
C9_EverySelfFieldRecurses ==
  Started =>
    \A i \in 1..NRequested :
      (Found(i) /\ SelfField(StructOfRequest(i), FALSE)) =>
        /\ Len(tables) < i
        /\ ~(pc = "exit" /\ exit.at = "generate" /\ idx = i - 1)

\* C9 amended: only the fields whose declared type is resolved count (not dropped,
\* no non-empty athena value).  A record type that is a field of itself through
\* such fields is never completed; it recurses without bound, reporting no
\* failure, unless a field with no mapping is reachable too, which may end the run
\* first.  Resolution recurses without bound only when it meets such a type: a
\* self reference through a dropped or overridden field is not followed.
C9_LiveSelfFieldRecurses ==
  Started =>
    /\ \A i \in 1..NRequested :
         (Found(i) /\ SelfField(StructOfRequest(i), TRUE)) =>
           /\ Len(tables) < i
           /\ ~Unresolvable(StructOfRequest(i)) =>
                ~(pc = "exit" /\ exit.at = "generate" /\ idx = i - 1)
    /\ pc = "recursing" =>
         /\ Found(idx + 1)
         /\ MeetsCycle(StructOfRequest(idx + 1))

\* the run is inside the unbounded recursion on Node, whose Next field is *Node
C9_Witness ==
  /\ pc = "recursing"
  /\ typeNames[idx + 1] = <<"N","o","d","e">>
  /\ SelfField(StructOfRequest(idx + 1), TRUE)
  /\ exit = Running

====
